---------------------------- MODULE Spec2Model ----------------------------
(***************************************************************************)
(* The PostgreSQL admin console (Streamlit pages over psycopg2) as a state *)
(* machine.  One page is open per behaviour (page); an action is one       *)
(* handler of that page, or one reply of the server to the statement the   *)
(* page has in flight, or one step of another session of the server.      *)
(*                                                                         *)
(* The server is modelled by what it does with the commands the pages      *)
(* send: SET / SET LOCAL / RESET of the two timeouts, the transaction of   *)
(* the page's connection, the table lock other sessions hold, and          *)
(* pg_cancel_backend / pg_terminate_backend.                               *)
(***************************************************************************)
EXTENDS Integers, Sequences, FiniteSets, TLC

VARIABLES
    page,                   \* which page's script is running
    pc,                     \* position of that script
    conn,                   \* the connection the running handler opened
    inflight,               \* the statement the connection is executing, or "none"
    backends,               \* the other sessions of the server: pid -> state
    committed,              \* effects committed to the database
    uncommitted,            \* effects of the open transaction of conn
    sent,                   \* commands of interest sent to the server, in order
    shown,                  \* what the page has rendered since the click, in order
    \* pages/2_Edit_Database.py
    single_txn, lock_timeout_ms, statement_timeout_ms, stmts, idx,
    max_rows,               \* the "Max rows to display" input
    table_rows,             \* how many rows a command of the batch returns, if any
    sqlparse,               \* whether `import sqlparse` succeeds
    explain,                \* the "EXPLAIN ANALYZE (read-only)" checkbox
    sql_txt,                \* the text area, as a sequence of lexical pieces
    statements,             \* what split_sql_statements returns for sql_txt
    \* pages/8_Bulk_Upload_CSV.py
    columns,                \* df.columns: the header of the CSV
    tbl_cols,               \* the columns of the target table
    force,                  \* the argument of do_upload
    pids, pidx,             \* the loop of force_unlock_table
    \* pages/3_Browse_Tables.py
    df_raw,                 \* one column of the rows fetched, as pandas holds it
    df_arrow,               \* that column of to_arrow_friendly(df_raw)
    df_again,               \* that column of to_arrow_friendly applied to df_arrow
    pk_cols, cols_types,    \* the catalog's answers about the table
    catalog_ok,             \* whether the catalog lookups go through
    newest_first,           \* the checkbox
    order_cols, order_strategy,
    order_by,               \* the ORDER BY of the query sent
    \* pages/7_Manual_Data_Entry.py
    entry_columns,          \* columns: what get_columns returns, (name, data_type)
    data,                   \* the text of each field of the form
    cleaned,                \* the dict handed to insert_row
    \* pages/9_connections.py
    df,                     \* the snapshot of pg_stat_activity: pid -> state
    \* pages/6_Delete_Database.py
    databases,              \* the databases of the server
    db, confirm             \* the selectbox and the checkbox

runnerVars == <<single_txn, lock_timeout_ms, statement_timeout_ms, stmts, idx>>
uploadVars == <<columns, tbl_cols, force, pids, pidx>>
serverVars == <<conn, inflight, backends, committed, uncommitted>>
browseVars == <<pk_cols, cols_types, catalog_ok, newest_first, order_cols, order_strategy, order_by>>
adminVars == <<df, databases, db, confirm>>
entryVars == <<entry_columns, data, cleaned>>
\* what a click finds and no handler assigns
givenVars == <<max_rows, table_rows, sqlparse, explain>>
splitVars == <<sql_txt, statements, df_raw, df_arrow, df_again>>
vars == <<page, pc, serverVars, sent, shown, runnerVars, uploadVars, browseVars, adminVars,
          givenVars, entryVars, splitVars>>

notRunner == <<uploadVars, browseVars, adminVars, givenVars, entryVars, splitVars>>
notUpload == <<runnerVars, browseVars, adminVars, givenVars, entryVars, splitVars>>
notBrowse == <<runnerVars, uploadVars, adminVars, givenVars, entryVars, splitVars>>
notAdmin == <<runnerVars, uploadVars, browseVars, givenVars, entryVars, splitVars>>

---------------------------------------------------------------------------
(* Bounds *)

MaxStmts == 3       \* statements in one submitted batch
MaxBackends == 2    \* other sessions on the server
MaxCsvCols == 3     \* columns of an uploaded CSV, and of its target table
MaxTableCols == 2   \* columns of a browsed table
MaxPieces == 5      \* lexical pieces of a submitted SQL text
MaxCells == 3       \* rows of a fetched column

Pids == 1..MaxBackends

---------------------------------------------------------------------------
(* The server: settings of a session *)

\* A timeout setting: unset (the server's default, which waits without
\* bound) or a number of milliseconds; 0 ms disables the timeout.
Default == [set |-> FALSE, ms |-> 0]
Ms(n) == [set |-> TRUE, ms |-> n]
Bounded(g) == g.set /\ g.ms > 0

GucNames == {"lock_timeout", "statement_timeout", "idle_in_transaction_session_timeout"}
AllDefault == [n \in GucNames |-> Default]

\* psycopg2.connect + conn.autocommit
get_conn(auto_commit) ==
    [state |-> "open", autocommit |-> auto_commit, txn |-> "idle",
     sess |-> AllDefault, loc |-> AllDefault]

NoConn == [state |-> "none", autocommit |-> FALSE, txn |-> "idle",
           sess |-> AllDefault, loc |-> AllDefault]

\* psycopg2 sends BEGIN before the first command on a connection that is
\* not in autocommit.
PgBegin(c) ==
    IF ~c.autocommit /\ c.txn = "idle" THEN [c EXCEPT !.txn = "intrans"] ELSE c

\* SET name = ms: session level.
PgSet(c, name, ms) == [PgBegin(c) EXCEPT !.sess[name] = Ms(ms)]

\* SET LOCAL name = ms: lasts until the end of the current transaction, and
\* outside a transaction block it only raises a WARNING and sets nothing.
PgSetLocal(c, name, ms) ==
    LET d == PgBegin(c)
    IN  IF d.txn = "intrans" THEN [d EXCEPT !.loc[name] = Ms(ms)] ELSE d

\* RESET name
PgReset(c, name) ==
    [PgBegin(c) EXCEPT !.sess[name] = Default, !.loc[name] = Default]

\* The end of a transaction, either way, ends every SET LOCAL.
PgEndTxn(c) == [c EXCEPT !.txn = "idle", !.loc = AllDefault]

Effective(c, name) == IF c.loc[name].set THEN c.loc[name] ELSE c.sess[name]

---------------------------------------------------------------------------
(* The server: the other sessions.  They are the sessions that touch the   *)
(* table the page works on: one that is active or idle in transaction      *)
(* holds a lock on it.                                                     *)

BackendStates == {"idle", "active", "idle in transaction", "gone"}

HoldsLock(p) == backends[p] \in {"active", "idle in transaction"}
Holders == {p \in Pids : HoldsLock(p)}

\* What a session may do next on its own.
BackendMoves(s) ==
    CASE s = "idle" -> {"active", "gone"}
      [] s = "active" -> {"idle", "idle in transaction", "gone"}
      [] s = "idle in transaction" -> {"active", "idle", "gone"}
      [] OTHER -> {}

BackendStep ==
    \* interleaved where the running handler waits on the server, and on
    \* the connections page between its snapshot and the click
    /\ \/ pc \in {"executing", "unlock"}
       \/ page = "connections" /\ pc = "ready"
    /\ \E p \in Pids : \E s \in BackendMoves(backends[p]) :
           backends' = [backends EXCEPT ![p] = s]
    /\ UNCHANGED <<page, pc, conn, inflight, committed, uncommitted, sent, shown,
                   runnerVars, uploadVars, browseVars, adminVars, givenVars, entryVars, splitVars>>

---------------------------------------------------------------------------
(* What the page renders and what it sends *)

Show(widget, about, text) == [widget |-> widget, stmt |-> about, text |-> text]
\* A command sent: held and gate are only for the commands that end or
\* destroy something.  held: the session the command is aimed at holds a
\* lock on the table as the command is sent; gate: the handler sending it
\* has asked the user to confirm.
Admin(op, arg, held, gate) == [op |-> op, arg |-> arg, held |-> held, gate |-> gate]
Cmd(op, arg) == Admin(op, arg, FALSE, FALSE)

Range(f) == {f[x] : x \in DOMAIN f}
SeqsNoDup(S, n) ==
    {q \in UNION {[1..k -> S] : k \in 0..n} :
        \A i \in DOMAIN q : \A j \in DOMAIN q : i # j => q[i] # q[j]}

\* to_exec of run_one_statement
to_exec(sql, with_explain) ==
    IF with_explain THEN "EXPLAIN (ANALYZE, BUFFERS, VERBOSE) " \o sql ELSE sql

\* The statement the server executes for a command: with ANALYZE, EXPLAIN
\* runs the statement it is given and returns the plan with the run's figures.
StatementOf(cmd) ==
    CASE cmd = "EXPLAIN (ANALYZE, BUFFERS, VERBOSE) write" -> "write"
      [] cmd = "EXPLAIN (ANALYZE, BUFFERS, VERBOSE) select" -> "select"
      [] cmd = "EXPLAIN (ANALYZE, BUFFERS, VERBOSE) bad" -> "bad"
      [] cmd = "EXPLAIN (ANALYZE, BUFFERS, VERBOSE) dies" -> "dies"
      [] OTHER -> cmd

\* The statement in flight waits for the table lock.
NeedsLock(kind) == kind \in {"write", "select", "copy"}
Blocked == NeedsLock(StatementOf(inflight)) /\ Holders # {}

\* Which timeout ends the wait: the one that expires first.
LockTimeoutFirst(c) ==
    /\ Bounded(Effective(c, "lock_timeout"))
    /\ Bounded(Effective(c, "statement_timeout"))
           => Effective(c, "lock_timeout").ms <= Effective(c, "statement_timeout").ms
StatementTimeoutFirst(c) ==
    /\ Bounded(Effective(c, "statement_timeout"))
    /\ ~LockTimeoutFirst(c)

---------------------------------------------------------------------------
(* pages/2_Edit_Database.py *)

\* The statements of a batch, by what the server does with them: a write to
\* the table, a query of it, a statement the server rejects, and one during
\* which the connection is lost.  Transaction-control commands are not in
\* the alphabet.
Kinds == {"write", "select", "bad", "dies"}
Batches == UNION {[1..n -> Kinds] : n \in 0..MaxStmts}

LockChoices == {0, 2000}
StatementChoices == {0, 500, 30000}

set_timeouts(c, lock_ms, statement_ms, in_txn) ==
    IF in_txn
    THEN PgSetLocal(PgSetLocal(c, "lock_timeout", lock_ms),
                    "statement_timeout", statement_ms)
    ELSE PgSet(PgSet(c, "lock_timeout", lock_ms),
               "statement_timeout", statement_ms)

\* The text area as a sequence of lexical pieces: a word, a blank, a
\* semicolon, a single quote, a backslash, a dollar-quote tag, and the two
\* ends of a block comment.
Pieces == {"w", " ", ";", "'", "\\", "$$", "/*", "*/"}
SqlTexts == UNION {[1..n -> Pieces] : n \in 0..MaxPieces}

At(txt, i) == IF i \in DOMAIN txt THEN txt[i] ELSE "eof"

\* The first position from i on that holds piece p, or 0.
RECURSIVE FirstAt(_, _, _)
FirstAt(txt, p, i) ==
    IF i > Len(txt) THEN 0
    ELSE IF txt[i] = p THEN i
    ELSE FirstAt(txt, p, i + 1)

\* sqlparse's String.Single, '(''|\'|[^'])*' , from position j on (past
\* the opening quote): the position of the closing quote the regular
\* expression settles on, or 0 when it does not match.  The star is
\* greedy and the alternatives are tried in order, with backtracking.
RECURSIVE StringEnd(_, _)
StringEnd(txt, j) ==
    IF j > Len(txt) THEN 0
    ELSE LET doubled == IF txt[j] = "'" /\ At(txt, j + 1) = "'"
                        THEN StringEnd(txt, j + 2) ELSE 0
             escaped == IF txt[j] = "\\" /\ At(txt, j + 1) = "'"
                        THEN StringEnd(txt, j + 2) ELSE 0
             other == IF txt[j] # "'" THEN StringEnd(txt, j + 1) ELSE 0
         IN  IF doubled # 0 THEN doubled
             ELSE IF escaped # 0 THEN escaped
             ELSE IF other # 0 THEN other
             ELSE IF txt[j] = "'" THEN j
             ELSE 0

\* Where the token that starts at i ends, for sqlparse's lexer: a string,
\* a dollar-quoted literal, a block comment up to the first end of comment
\* (comments do not nest); a piece no expression matches in full is a token
\* by itself.
TokenEnd(txt, i) ==
    LET close == CASE txt[i] = "'" -> StringEnd(txt, i + 1)
                   [] txt[i] = "$$" -> FirstAt(txt, "$$", i + 1)
                   [] txt[i] = "/*" -> FirstAt(txt, "*/", i + 1)
                   [] OTHER -> i
    IN  IF close = 0 THEN i ELSE close

\* sqlparse.parse: the positions of the semicolons that are tokens by
\* themselves (Punctuation), each of which ends a statement.
RECURSIVE ParseCuts(_, _)
ParseCuts(txt, i) ==
    IF i > Len(txt) THEN {}
    ELSE (IF txt[i] = ";" THEN {i} ELSE {}) \cup ParseCuts(txt, TokenEnd(txt, i) + 1)

\* The statements sqlparse.parse yields: the text cut after each such
\* semicolon.  (Blanks after a semicolon are handed to the statement
\* before it or to the one after it; str.strip makes that no difference.)
RECURSIVE CutAt(_, _, _)
CutAt(txt, cuts, from) ==
    IF from > Len(txt) THEN <<>>
    ELSE LET later == {c \in cuts : c >= from}
             to == IF later = {} THEN Len(txt)
                   ELSE CHOOSE c \in later : \A d \in later : c <= d
         IN  <<SubSeq(txt, from, to)>> \o CutAt(txt, cuts, to + 1)

\* str.strip(), str.strip(";") and str.rstrip(";")
RECURSIVE LStrip(_, _)
LStrip(t, chars) ==
    IF t # <<>> /\ Head(t) \in chars THEN LStrip(Tail(t), chars) ELSE t
RECURSIVE RStrip(_, _)
RStrip(t, chars) ==
    IF t # <<>> /\ t[Len(t)] \in chars THEN RStrip(SubSeq(t, 1, Len(t) - 1), chars) ELSE t
Strip(t, chars) == LStrip(RStrip(t, chars), chars)

\* split_sql_statements, past the import.
split_sql_statements(sql_text) ==
    LET parsed == CutAt(sql_text, ParseCuts(sql_text, 1), 1)
        kept == SelectSeq(parsed, LAMBDA t : Strip(Strip(t, {" "}), {";"}) # <<>>)
        stripped == [k \in DOMAIN kept |-> Strip(kept[k], {" "})]
        final == [k \in DOMAIN stripped |-> Strip(RStrip(stripped[k], {";"}), {" "})]
    IN  SelectSeq(final, LAMBDA t : t # <<>>)

\* split_sql_statements by itself on a text.
SplitText ==
    /\ page = "split" /\ pc = "ready"
    /\ statements' = split_sql_statements(sql_txt)
    /\ pc' = "done"
    /\ UNCHANGED <<page, serverVars, sent, shown, runnerVars, sql_txt, givenVars, entryVars,
                   uploadVars, browseVars, adminVars, df_raw, df_arrow, df_again>>

\* (mutant) _set_timeouts never asks for the RESET
needs_reset_never(in_txn) == FALSE

\* The value _set_timeouts returns: whether RESET is required on exit.
needs_reset(in_txn) == ~in_txn

reset_timeouts(c) == PgReset(PgReset(c, "lock_timeout"), "statement_timeout")

\* (mutant) the single-transaction branch opens its connection in autocommit
RunnerAutoCommitAlways(single) == TRUE

\* get_conn(db, auto_commit=...) of the two branches of Run SQL.
RunnerAutoCommit(single) == ~single

\* `with conn:` on leaving: commit on success, rollback on an exception.
TxnExitCommits(failed) == ~failed

\* (mutant) the autocommit loop leaves on the first error as well
StopsOnErrorAlways(single) == TRUE

\* What the except clauses of the two loops do after st.error: the
\* single-transaction loop re-raises, the autocommit loop continues.
StopsOnError(single) == single

\* rows = rows[:max_rows] when max_rows > 0 and len(rows) > max_rows;
\* the number of rows of the payload
KeptRows(n, limit) == IF limit > 0 /\ n > limit THEN limit ELSE n

\* (mutant) every statement is taken to return rows
AlwaysDescription(kind) == TRUE

\* `if cur.description:` rows returned, for the commands met: a query, and
\* an EXPLAIN that went through (its rows are the lines of the plan)
HasDescription(kind) == kind \in {"select", "EXPLAIN (ANALYZE, BUFFERS, VERBOSE) select", "EXPLAIN (ANALYZE, BUFFERS, VERBOSE) write"}

\* (mutant) one message for every failure
ErrorTextGeneric(out) == "generic"

\* The message of the except clause that catches what was raised.
ErrorText(out) ==
    CASE out = "lock_not_available" -> "locked"
      [] out = "query_canceled" -> "timed out"
      [] OTHER -> "generic"

\* Leaving the `with` blocks of the branch.  c, k, u: the connection, the
\* committed and the uncommitted effects as the last statement left them;
\* raised: an exception is on its way out of the loop.
FinishBatch(c, k, u, raised, log) ==
    LET \* COMMIT in a transaction the server has aborted is a ROLLBACK
        commits == c.state = "open" /\ c.txn = "intrans" /\ TxnExitCommits(raised)
        inner == IF raised
                 THEN Append(log, Show("warning", 0, "rolled back"))
                 ELSE log
        \* the outer `with get_conn(...) as conn` calls conn.commit() on its
        \* way out, which raises on a connection that is lost
        outer == IF c.state = "broken"
                 THEN Append(inner, Show("exception", 0, "generic"))
                 ELSE inner
    IN  /\ committed' = IF commits THEN k \cup u ELSE k
        /\ uncommitted' = {}
        /\ conn' = IF c.state = "open" THEN PgEndTxn(c) ELSE c
        /\ shown' = outer
        /\ pc' = "done"
        /\ idx' = idx

\* The caller of run_one_statement: what it shows for statement idx and
\* where the loop goes.  out is "done" or what was raised.
RunnerAfter(c, k, u, out, kind) ==
    LET failed == out # "done"
        log == IF failed
               THEN Append(shown, Show("error", idx, ErrorText(out)))
               ELSE IF HasDescription(kind)
                    \* st.dataframe(payload) and "Returned {len(payload)} row(s)"
                    THEN Append(shown, Show("dataframe", idx, KeptRows(table_rows, max_rows)))
                    ELSE Append(shown, Show("success", idx, "status"))
        raised == failed /\ StopsOnError(single_txn)
    IN  IF raised \/ idx = Len(stmts)
        THEN FinishBatch(c, k, u, raised, log)
        ELSE /\ conn' = c
             /\ committed' = k
             /\ uncommitted' = u
             /\ shown' = log
             /\ idx' = idx + 1
             /\ pc' = "stmt"

\* run_one_statement from the reply of the server on.  out is the reply:
\* "done", or the error the server raised, or "lost".
RunnerResume(out) ==
    LET in_txn == single_txn
        ok == out = "done"
        \* the server: the state of the session and the effect of the statement
        c1 == IF out = "lost" THEN [conn EXCEPT !.state = "broken"]
              ELSE IF ~ok /\ conn.txn = "intrans" THEN [conn EXCEPT !.txn = "inerror"]
              ELSE conn
        wrote == ok /\ StatementOf(inflight) = "write"
        k1 == IF wrote /\ conn.txn = "idle" THEN committed \cup {idx} ELSE committed
        u1 == IF out = "lost" THEN {}
              ELSE IF wrote /\ conn.txn = "intrans" THEN uncommitted \cup {idx}
              ELSE uncommitted
        \* finally: RESET, which raises on a connection that is lost
        c2 == IF needs_reset(in_txn) /\ c1.state = "open" THEN reset_timeouts(c1) ELSE c1
        res == IF ok /\ needs_reset(in_txn) /\ c1.state # "open" THEN "lost" ELSE out
    IN  /\ inflight' = "none"
        /\ RunnerAfter(c2, k1, u1, res, inflight)

\* (mutant) the splitter goes on without sqlparse
ImportNeverStops(available) == FALSE

\* split_sql_statements: `except Exception:` around the import ends in
\* st.error and st.stop().
ImportStops(available) == ~available

\* st.button("Run SQL"): split, and open the connection of the branch.
\* stmts is what the text area holds, statement by statement.
RunSQL ==
    /\ page = "runner" /\ pc = "ready"
    /\ IF ImportStops(sqlparse)
       THEN /\ shown' = Append(shown, Show("error", 0, "requires sqlparse"))
            /\ pc' = "stopped"
            /\ UNCHANGED conn
       ELSE IF stmts = <<>>
       THEN /\ shown' = Append(shown, Show("warning", 0, "no statements"))
            /\ pc' = "stopped"
            /\ UNCHANGED conn
       ELSE /\ conn' = get_conn(RunnerAutoCommit(single_txn))
            /\ pc' = "stmt"
            /\ UNCHANGED shown
    /\ UNCHANGED <<page, inflight, backends, committed, uncommitted, sent, runnerVars,
                   notRunner>>

\* run_one_statement up to cur.execute(to_exec): the cursor, the timeouts,
\* and the statement on its way to the server.
StartStatement ==
    /\ page = "runner" /\ pc = "stmt"
    /\ LET in_txn == single_txn
       IN  IF conn.state # "open"
           THEN \* conn.cursor() raises on a connection that is lost
                /\ RunnerAfter(conn, committed, uncommitted, "lost", stmts[idx])
                /\ UNCHANGED <<inflight, sent>>
           ELSE LET c1 == set_timeouts(conn, lock_timeout_ms, statement_timeout_ms, in_txn)
                    c2 == IF in_txn
                          THEN PgSetLocal(c1, "idle_in_transaction_session_timeout", 15000)
                          ELSE c1
                IN  /\ conn' = c2
                    /\ inflight' = to_exec(stmts[idx], explain)
                    /\ sent' = Append(sent, Cmd("stmt", idx))
                    /\ pc' = "executing"
                    /\ UNCHANGED <<committed, uncommitted, shown, idx>>
    /\ UNCHANGED <<page, backends, single_txn, lock_timeout_ms, statement_timeout_ms,
                   stmts, notRunner>>

---------------------------------------------------------------------------
(* pages/8_Bulk_Upload_CSV.py *)

ColNames == {"id", "name", "extra_col"}
\* The target tables offered: the first columns of this one.
DeclaredCols == <<"id", "name", "extra_col">>

\* (mutant) only the first header is looked up in the table
MissingFirstOnly(cols, tcols) ==
    IF cols[1] \notin Range(tcols) THEN <<cols[1]>> ELSE <<>>

\* missing = [c for c in df.columns if c not in tbl_cols]
Missing(cols, tcols) == SelectSeq(cols, LAMBDA c : c \notin Range(tcols))

\* The script from its top to the two buttons.
UploadRender ==
    /\ page = "upload" /\ pc = "start"
    /\ IF Missing(columns, tbl_cols) # <<>>
       THEN /\ shown' = Append(shown, Show("error", 0, Missing(columns, tbl_cols)))
            /\ pc' = "stopped"
       ELSE /\ shown' = Append(shown, Show("success", 0, "CSV looks good"))
            /\ pc' = "ready"
    /\ UNCHANGED <<page, serverVars, sent, uploadVars, notUpload>>

\* copy_csv: the two settings it makes before COPY
copy_csv_timeouts(c) ==
    PgSetLocal(PgSetLocal(c, "lock_timeout", 1500), "statement_timeout", 300000)

\* do_upload from `with get_conn(db, auto_commit=True)` to copy_expert on
\* its way to the server.  log and cmds: what was shown and sent before.
StartCopy(log, cmds) ==
    /\ conn' = copy_csv_timeouts(get_conn(TRUE))
    /\ inflight' = "copy"
    /\ sent' = Append(cmds, Cmd("copy", 1))
    /\ shown' = log
    /\ pc' = "executing"

\* (mutant) do_upload unlocks whatever button was clicked
DoUploadUnlocksAlways(f) == TRUE

\* `if force:` of do_upload
DoUploadUnlocks(f) == f

\* look_sql: the sessions holding a lock on the table, in the order the
\* server happens to return them.
LookSql(b) ==
    LET H == {p \in Pids : b[p] \in {"active", "idle in transaction"}}
    IN  {q \in [1..Cardinality(H) -> H] :
            \A i \in DOMAIN q : \A j \in DOMAIN q : i # j => q[i] # q[j]}

\* do_upload(force): the click of one of the two buttons.
DoUpload(f) ==
    /\ page = "upload" /\ pc = "ready"
    /\ force' = f
    /\ IF DoUploadUnlocks(f)
       THEN \E found \in LookSql(backends) :
              /\ pids' = found
              /\ pidx' = 1
              /\ IF found = <<>>
                 THEN StartCopy(Append(shown, Show("info", 0, "none found")), sent)
                 ELSE /\ conn' = get_conn(TRUE)
                      /\ pc' = "unlock"
                      /\ UNCHANGED <<inflight, sent, shown>>
       ELSE /\ StartCopy(shown, sent)
            /\ UNCHANGED <<pids, pidx>>
    /\ UNCHANGED <<page, backends, committed, uncommitted, notUpload, columns, tbl_cols>>

ClickUpload == DoUpload(FALSE)
ClickForceUpload == DoUpload(TRUE)

\* What pg_cancel_backend may have done to a session by the time the lock
\* is looked up again: nothing yet, or its statement is cancelled and it is
\* idle again, or idle in its (aborted) transaction, locks kept.  A session
\* that runs no statement ignores it.
AfterCancel(s) ==
    IF s = "active" THEN {"active", "idle", "idle in transaction"} ELSE {s}

\* `still_locked`: the second look_sql returns a row
StillLocked(b, pid) == LookSql(b) # {<<>>}

\* One turn of `for pid in pids` of force_unlock_table, and after the last
\* one the rest of do_upload.
ForceUnlockStep ==
    /\ page = "upload" /\ pc = "unlock"
    /\ LET pid == pids[pidx] IN
       \E s \in AfterCancel(backends[pid]) :
          LET b1 == [backends EXCEPT ![pid] = s]
              cancel == Admin("cancel", pid, HoldsLock(pid), FALSE)
              kill == Admin("terminate", pid, s \in {"active", "idle in transaction"}, FALSE)
              still_locked == StillLocked(b1, pid)
              cmds == IF still_locked THEN <<cancel, kill>> ELSE <<cancel>>
          IN  /\ backends' = IF still_locked THEN [b1 EXCEPT ![pid] = "gone"] ELSE b1
              /\ pidx' = pidx + 1
              /\ IF pidx = Len(pids)
                 THEN StartCopy(Append(shown, Show("info", 0, pids)), sent \o cmds)
                 ELSE /\ sent' = sent \o cmds
                      /\ UNCHANGED <<conn, inflight, shown, pc>>
    /\ UNCHANGED <<page, committed, uncommitted, notUpload, columns, tbl_cols, force, pids>>

\* do_upload from the reply to COPY on.
UploadResume(out) ==
    /\ inflight' = "none"
    /\ conn' = IF out = "lost" THEN [conn EXCEPT !.state = "broken"] ELSE conn
    /\ committed' = IF out = "done" THEN committed \cup {1} ELSE committed
    /\ shown' = Append(shown,
                  CASE out = "done" -> Show("success", 1, "Inserted")
                    [] out = "lock_not_available" -> Show("error", 1, "locked")
                    [] out = "query_canceled" -> Show("error", 1, "timed out")
                    [] OTHER -> Show("error", 1, "generic"))
    /\ pc' = "done"
    /\ UNCHANGED <<uncommitted, uploadVars>>

---------------------------------------------------------------------------
(* pages/3_Browse_Tables.py *)

\* A column of a DataFrame: the class of its dtype and its cells.  A cell is
\* its Python type and its value as str() writes it.
Column(dtype, cells) == [dtype |-> dtype, cells |-> cells]
Cell(t, v) == [t |-> t, v |-> v]
None == Cell("NoneType", "None")
NA == Cell("NAType", "<NA>")
NaN == Cell("float", "nan")
NaT == Cell("NaTType", "NaT")
IsNull(c) == c \in {None, NA, NaN, NaT}

\* The values psycopg2 hands over in a column pandas holds as object:
\* text, NULL, a numeric as Decimal and a time as datetime.time.
TextValues == {"true", "FALSE", "1", "0", "2.5", "abc", "2024-01-05", " yes"}
RawCells == {None} \cup {Cell("str", v) : v \in TextValues}
                \cup {Cell("Decimal", "2.5"), Cell("time", "12:00:00")}
RawColumns == {Column("object", cells) : cells \in UNION {[1..n -> RawCells] : n \in 0..MaxCells}}

\* str(dtype) of the dtypes met: the name of the dtype, not of its class
DtypeStr(dtype) ==
    CASE dtype = "BooleanDtype" -> "boolean"
      [] dtype = "Int64Dtype" -> "Int64"
      [] dtype = "Float64DType" -> "float64"
      [] dtype = "DateTime64DType" -> "datetime64[ns]"
      [] OTHER -> "object"

TRUE_SET == {"true", "t", "1", "yes", "y"}
FALSE_SET == {"false", "f", "0", "no", "n"}

\* str(x).strip().lower() of the values met
StripLower(v) ==
    CASE v = "FALSE" -> "false"
      [] v = " yes" -> "yes"
      [] v = "None" -> "none"
      [] OTHER -> v

\* series.notna().mean() >= num / den; the mean of an empty series is NaN,
\* which is not >= anything
NotNullMeanAtLeast(cells, num, den) ==
    /\ cells # <<>>
    /\ den * Cardinality({i \in DOMAIN cells : ~IsNull(cells[i])}) >= num * Len(cells)

\* _normalize_object_cell: a Decimal becomes a float, text and None stay
normalize_object_cell(x) ==
    IF x.t = "Decimal" THEN Cell("float", x.v) ELSE x

\* pd.to_numeric(s, errors="coerce") on a cell: a float, or NaN
to_numeric(x) ==
    CASE x.t = "float" -> x
      [] x.t = "str" /\ x.v \in {"1", "0"} -> Cell("float", x.v \o ".0")
      [] x.t = "str" /\ x.v = "2.5" -> Cell("float", x.v)
      [] OTHER -> NaN
IsIntegral(x) == x.v \in {"1.0", "0.0"}
\* astype("Int64") of a float cell
AsInt64(x) ==
    CASE x.v = "1.0" -> Cell("int", "1")
      [] x.v = "0.0" -> Cell("int", "0")
      [] OTHER -> NA

\* _maybe_bool_series
maybe_bool_series(s) ==
    LET vals == {StripLower(s.cells[i].v) : i \in {j \in DOMAIN s.cells : ~IsNull(s.cells[j])}}
    IN  IF vals = {} THEN s
        ELSE IF vals \subseteq (TRUE_SET \cup FALSE_SET)
        THEN Column("BooleanDtype",
                    [i \in DOMAIN s.cells |->
                        IF StripLower(s.cells[i].v) \in TRUE_SET THEN Cell("bool", "True")
                        ELSE IF StripLower(s.cells[i].v) \in FALSE_SET THEN Cell("bool", "False")
                        ELSE NA])
        ELSE s

\* s.astype(str) on a cell
astype_str(x) == Cell("str", x.v)

\* sample.str.contains(r"[-/:]") on a cell of text: NaN on another cell
ContainsDateMark(x) ==
    IF x.t = "str" /\ x.v \in {"2024-01-05", "12:00:00"} THEN Cell("bool", "True")
    ELSE IF x.t = "str" THEN Cell("bool", "False")
    ELSE NaN

\* pd.to_datetime(s, errors="coerce") on a cell: a text that reads as a
\* date or as a time of day is parsed (a time of day, on the current date);
\* a datetime.time is not convertible, and is coerced to NaT
to_datetime(x) ==
    CASE x.t = "str" /\ x.v = "2024-01-05" -> Cell("Timestamp", "2024-01-05 00:00:00")
      [] x.t = "str" /\ x.v = "12:00:00" -> Cell("Timestamp", "today 12:00:00")
      [] OTHER -> NaT

\* _maybe_datetime_series (the columns met have fewer than 20 rows)
maybe_datetime_series(s) ==
    LET notna == SelectSeq(s.cells, LAMBDA x : ~IsNull(x))
        sample == [i \in DOMAIN notna |-> ContainsDateMark(astype_str(notna[i]))]
        marked == SelectSeq(sample, LAMBDA x : x = Cell("bool", "True"))
        dt == [i \in DOMAIN s.cells |-> to_datetime(s.cells[i])]
    IN  IF /\ sample # <<>> /\ 2 * Len(marked) >= Len(sample)
           /\ NotNullMeanAtLeast(dt, 3, 5)
        THEN Column("DateTime64DType", dt)
        ELSE s

\* to_arrow_friendly, on one column of the frame
to_arrow_friendly(col) ==
    IF col.cells = <<>> THEN col
    ELSE IF DtypeStr(col.dtype) # "object" THEN col
    ELSE LET s == Column(col.dtype,
                         [i \in DOMAIN col.cells |-> normalize_object_cell(col.cells[i])])
             num_try == [i \in DOMAIN s.cells |-> to_numeric(s.cells[i])]
             bool_try == maybe_bool_series(s)
             dt_try == maybe_datetime_series(s)
         IN  IF NotNullMeanAtLeast(num_try, 3, 5)
             THEN IF \A i \in DOMAIN num_try : IsNull(num_try[i]) \/ IsIntegral(num_try[i])
                  THEN Column("Int64Dtype", [i \in DOMAIN num_try |-> AsInt64(num_try[i])])
                  ELSE Column("Float64DType", num_try)
             ELSE IF DtypeStr(bool_try.dtype) = "BooleanDtype" THEN bool_try
             ELSE IF dt_try.dtype = "DateTime64DType" THEN dt_try
             ELSE Column(s.dtype, [i \in DOMAIN s.cells |-> astype_str(s.cells[i])])

\* to_arrow_friendly by itself on a column.
ToArrowFriendly ==
    /\ page = "arrow" /\ pc = "ready"
    /\ df_arrow' = to_arrow_friendly(df_raw)
    /\ pc' = "done"
    /\ UNCHANGED <<page, serverVars, sent, shown, runnerVars, uploadVars, browseVars,
                   adminVars, givenVars, entryVars, sql_txt, statements, df_raw, df_again>>

\* to_arrow_friendly on what it returned.
ToArrowFriendlyAgain ==
    /\ page = "arrow" /\ pc = "done"
    /\ df_again' = to_arrow_friendly(df_arrow)
    /\ pc' = "again"
    /\ UNCHANGED <<page, serverVars, sent, shown, runnerVars, uploadVars, browseVars,
                   adminVars, givenVars, entryVars, sql_txt, statements, df_raw, df_arrow>>

\* (mutant) created_at is not among the conventional names
COMMON_TS_NAMES_less == {"updated_at", "inserted_at", "createdon", "updatedon",
                         "timestamp", "ts", "created", "updated"}
COMMON_TS_NAMES == {"created_at", "updated_at", "inserted_at", "createdon", "updatedon",
                    "timestamp", "ts", "created", "updated"}
COMMON_ID_NAMES == {"id"}
TsTypes == {"timestamptz", "timestamp", "timestampz", "timestamp without time zone",
            "timestamp with time zone", "date"}
\* (mutant) the integer types only
IdTypesIntegerOnly == {"int2", "int4", "int8", "serial", "bigserial"}
IdTypes == {"int2", "int4", "int8", "serial", "bigserial", "numeric"}

\* The column names met in the catalogs, in the order Python sorts strings
\* (by code point: capitals before lower case, a prefix before its extensions).
NameOrder == <<"ID", "born_on", "created", "created_at", "id", "org_id", "seen_on", "user_id">>
\* The names and types of the tables the browse page is opened on.
BrowseNames == {"ID", "created_at", "id", "user_id"}
TypeChoices == {"timestamptz", "int4", "text"}
\* pg_type.typname of the columns the heuristic is tried on by itself.
PickTypes == {"timestamptz", "date", "int4", "numeric", "text"}
Rank(n) == CHOOSE i \in DOMAIN NameOrder : NameOrder[i] = n
\* str.lower and str.endswith("_id") on these names and on the type names
Lower(n) == IF n = "ID" THEN "id" ELSE n
EndsWithId(n) == n \in {"org_id", "user_id"}

\* (mutant) the candidates are left in declaration order
FirstDeclared(names, common) == names[1]

\* seq.sort(key=lambda n: (0 if n.lower() in common else 1, n)); seq[0]
FirstSorted(names, common) ==
    LET Flag(n) == IF Lower(n) \in common THEN 0 ELSE 1
        Le(n, m) == Flag(n) < Flag(m) \/ (Flag(n) = Flag(m) /\ Rank(n) <= Rank(m))
    IN  CHOOSE n \in Range(names) : \A m \in Range(names) : Le(n, m)

\* (mutant) the timestamp rule is tried before the primary key
pick_ordering_columns_ts_first(pk, ct) ==
    LET ts == SelectSeq(ct, LAMBDA c : Lower(c[2]) \in TsTypes)
    IN  IF ts # <<>> THEN <<<<ts[1][1]>>, "timestamp">>
        ELSE IF pk # <<>> THEN <<pk, "primary key">>
        ELSE <<<<"ctid">>, "ctid">>

\* pk: what get_primary_key_columns returns, ct: get_columns_with_types.
pick_ordering_columns(pk, ct) ==
    LET ts == SelectSeq(ct, LAMBDA c : Lower(c[2]) \in TsTypes)
        ts_candidates == [i \in DOMAIN ts |-> ts[i][1]]
        ids == SelectSeq(ct, LAMBDA c :
                   /\ Lower(c[1]) \in COMMON_ID_NAMES \/ EndsWithId(Lower(c[1]))
                   /\ Lower(c[2]) \in IdTypes)
        id_candidates == [i \in DOMAIN ids |-> ids[i][1]]
    IN  IF pk # <<>> THEN <<pk, "primary key">>
        ELSE IF ts_candidates # <<>>
             THEN <<<<FirstSorted(ts_candidates, COMMON_TS_NAMES)>>, "timestamp">>
        ELSE IF id_candidates # <<>>
             THEN <<<<FirstSorted(id_candidates, COMMON_ID_NAMES)>>, "id">>
        ELSE <<<<"ctid">>, "ctid">>

\* The two settings the page makes on its autocommit connection.
browse_timeouts(c) ==
    PgSetLocal(PgSetLocal(c, "lock_timeout", 1500), "statement_timeout", 30000)

\* order_by: "{} DESC" for each chosen column
OrderBy(cols) == [i \in DOMAIN cols |-> <<cols[i], "DESC">>]

\* The script from `with get_conn(db, auto_commit=True)` to cur.execute(q)
\* on its way to the server.  No ordering chosen is order_cols = <<>>.
BrowseQuery ==
    /\ page = "browse" /\ pc = "ready"
    /\ LET \* `except Exception`: a lookup that fails leaves no ordering
           picked == IF newest_first /\ catalog_ok
                     THEN pick_ordering_columns(pk_cols, cols_types)
                     ELSE <<<<>>, "none">>
       IN  /\ order_cols' = picked[1]
           /\ order_strategy' = picked[2]
           /\ order_by' = OrderBy(picked[1])
    /\ conn' = browse_timeouts(get_conn(TRUE))
    /\ inflight' = "select"
    /\ sent' = Append(sent, Cmd("select", 1))
    /\ pc' = "executing"
    /\ UNCHANGED <<page, backends, committed, uncommitted, shown, pk_cols, cols_types,
                   catalog_ok, newest_first, notBrowse>>

\* The script from the reply to the SELECT on.
BrowseResume(out) ==
    /\ inflight' = "none"
    /\ conn' = IF out = "lost" THEN [conn EXCEPT !.state = "broken"] ELSE conn
    /\ shown' = IF out = "done"
                THEN shown \o <<Show("caption", 1, order_strategy), Show("dataframe", 1, "rows")>>
                ELSE Append(shown,
                       CASE out = "lock_not_available" -> Show("error", 1, "locked")
                         [] out = "query_canceled" -> Show("error", 1, "timed out")
                         [] OTHER -> Show("error", 1, "generic"))
    /\ pc' = "done"
    /\ UNCHANGED <<committed, uncommitted, browseVars>>

\* pick_ordering_columns by itself, on what the two catalog queries returned.
PickOrdering ==
    /\ page = "pick" /\ pc = "ready"
    /\ LET picked == pick_ordering_columns(pk_cols, cols_types)
       IN  /\ order_cols' = picked[1]
           /\ order_strategy' = picked[2]
           /\ order_by' = OrderBy(picked[1])
    /\ pc' = "done"
    /\ UNCHANGED <<page, serverVars, sent, shown, pk_cols, cols_types, catalog_ok,
                   newest_first, notBrowse>>

---------------------------------------------------------------------------
(* pages/7_Manual_Data_Entry.py *)

\* information_schema's data_type of the columns met, the column names, and
\* what is typed into a field.
EntryTypes == {"integer", "text", "double precision"}
EntryNames == {"id", "age", "note"}
FieldTexts == {"", "7", "2.5", "abc"}

\* name.endswith("id") on these names
EndsWith_id(name) == name = "id"

\* `continue` in the loop that builds the form: no field for the column
Skipped(name, dtype) == dtype \in {"integer", "bigint"} /\ EndsWith_id(name)

\* The columns the form has a field for.
FormFields(cols) ==
    {cols[i][1] : i \in {j \in DOMAIN cols : ~Skipped(cols[j][1], cols[j][2])}}

\* int(text) and float(text) raise ValueError on a text that is no number
IntParses(text) == text = "7"
FloatParses(text) == text \in {"7", "2.5"}

\* The casting loop on one column: what it raises, or "no".  d is the dict
\* of the fields; d.get(name) is None for a column without a field.
CastRaises(d, name, dtype) ==
    IF name \in DOMAIN d /\ d[name] = "" THEN "no"
    ELSE IF dtype \in {"integer", "bigint"}
         THEN IF name \notin DOMAIN d THEN "KeyError"
              ELSE IF IntParses(d[name]) THEN "no" ELSE "ValueError"
    ELSE IF dtype = "double precision"
         THEN IF FloatParses(d[name]) THEN "no" ELSE "ValueError"
    ELSE "no"

\* ... and what it leaves in data[name] when it does not raise.
Cast(text, dtype) ==
    IF text = "" THEN None
    ELSE IF dtype \in {"integer", "bigint"} THEN Cell("int", text)
    ELSE IF dtype = "double precision"
         THEN Cell("float", IF text = "7" THEN "7.0" ELSE text)
    ELSE Cell("str", text)

\* The script from its top to the form, and the user filling it in.
EntryRender ==
    /\ page = "entry" /\ pc = "start"
    /\ data' \in [FormFields(entry_columns) -> FieldTexts]
    /\ pc' = "form"
    /\ UNCHANGED <<page, serverVars, sent, shown, runnerVars, uploadVars, browseVars,
                   adminVars, givenVars, splitVars, entry_columns, cleaned>>

\* st.form_submit_button("Insert row"): the casting loop, then insert_row
\* inside the try.  An exception of the casting loop is outside the try and
\* ends the script.  inserted: the server accepts the row.
InsertRow ==
    /\ page = "entry" /\ pc = "form"
    /\ LET raising == {i \in DOMAIN entry_columns :
                          CastRaises(data, entry_columns[i][1], entry_columns[i][2]) # "no"}
           first == CHOOSE i \in raising : \A j \in raising : i <= j
           dtypeOf == [n \in DOMAIN data |->
                         entry_columns[CHOOSE i \in DOMAIN entry_columns :
                                           entry_columns[i][1] = n][2]]
           kept == {n \in DOMAIN data : Cast(data[n], dtypeOf[n]) # None}
       IN  IF raising # {}
           THEN /\ shown' = Append(shown, Show("exception", 0,
                                CastRaises(data, entry_columns[first][1], entry_columns[first][2])))
                /\ UNCHANGED <<cleaned, sent, committed>>
           ELSE /\ cleaned' = [n \in kept |-> Cast(data[n], dtypeOf[n])]
                /\ sent' = Append(sent, Cmd("insert", 1))
                /\ \E inserted \in BOOLEAN :
                      /\ committed' = IF inserted THEN committed \cup {1} ELSE committed
                      /\ shown' = Append(shown, IF inserted THEN Show("success", 1, "Inserted")
                                                ELSE Show("error", 1, "generic"))
    /\ pc' = "done"
    /\ UNCHANGED <<page, conn, inflight, backends, uncommitted, runnerVars, uploadVars,
                   browseVars, adminVars, givenVars, splitVars, entry_columns, data>>

---------------------------------------------------------------------------
(* pages/9_connections.py *)

\* get_activity: the sessions there are
get_activity(b) == [p \in {q \in Pids : b[q] # "gone"} |-> b[p]]

\* The script from its top to the buttons.
ConnectionsRender ==
    /\ page = "connections" /\ pc = "start"
    /\ df' = get_activity(backends)
    /\ IF DOMAIN get_activity(backends) = {}
       THEN /\ shown' = Append(shown, Show("info", 0, "No active connections."))
            /\ pc' = "stopped"
       ELSE /\ pc' = "ready" /\ UNCHANGED shown
    /\ UNCHANGED <<page, serverVars, sent, databases, db, confirm, notAdmin>>

\* terminate_connection for each pid of ps: pg_terminate_backend ends the
\* session if it is still there.
TerminateAll(b, ps) == [p \in Pids |-> IF p \in ps THEN "gone" ELSE b[p]]
TerminateCmds(b, ps) ==
    LET RECURSIVE Cmds(_)
        Cmds(S) == IF S = {} THEN <<>>
                   ELSE LET p == CHOOSE q \in S : \A r \in S : q <= r
                        IN  <<Admin("terminate", p,
                                    b[p] \in {"active", "idle in transaction"}, FALSE)>>
                            \o Cmds(S \ {p})
    IN  Cmds(ps)

\* idle_pids of terminate_all_idle_in_transaction
IdlePids(snapshot) == {p \in DOMAIN snapshot : snapshot[p] = "idle in transaction"}

\* st.button("Terminate all idle in transaction")
TerminateAllIdle ==
    /\ page = "connections" /\ pc = "ready"
    /\ backends' = TerminateAll(backends, IdlePids(df))
    /\ sent' = sent \o TerminateCmds(backends, IdlePids(df))
    /\ shown' = Append(shown, Show("warning", Cardinality(IdlePids(df)), "Terminated"))
    /\ pc' = "done"
    /\ UNCHANGED <<page, conn, inflight, committed, uncommitted, adminVars, notAdmin>>

\* st.button("Terminate", key=f"kill{pid}") of one row
TerminateRow ==
    /\ page = "connections" /\ pc = "ready"
    /\ \E pid \in DOMAIN df :
          /\ backends' = TerminateAll(backends, {pid})
          /\ sent' = sent \o TerminateCmds(backends, {pid})
          /\ shown' = Append(shown, Show("warning", pid, "Terminated"))
    /\ pc' = "done"
    /\ UNCHANGED <<page, conn, inflight, committed, uncommitted, adminVars, notAdmin>>

---------------------------------------------------------------------------
(* pages/6_Delete_Database.py *)

protected == {"postgres", "template0", "template1"}
Templates == {"template0", "template1"}
UserDatabases == {"demo", "shop"}

\* list_databases: datistemplate = false
list_databases(dbs) == dbs \ Templates
\* (mutant) every database listed can be chosen
choices_unprotected(dbs) == list_databases(dbs)

\* choices = [d for d in list_databases() if d not in protected]
choices(dbs) == list_databases(dbs) \ protected

\* The script from its top to the button; the selectbox is on one of the
\* choices.
DeleteRender ==
    /\ page = "delete" /\ pc = "start"
    /\ IF choices(databases) = {}
       THEN /\ shown' = Append(shown, Show("info", 0, "No user databases to delete."))
            /\ pc' = "stopped"
            /\ UNCHANGED db
       ELSE /\ db' \in choices(databases)
            /\ pc' = "ready"
            /\ UNCHANGED shown
    /\ UNCHANGED <<page, serverVars, sent, df, databases, confirm, notAdmin>>

\* st.checkbox("Yes, really delete it.")
TickConfirm ==
    /\ page = "delete" /\ pc = "ready"
    /\ confirm' = ~confirm
    /\ UNCHANGED <<page, pc, serverVars, sent, shown, df, databases, db, notAdmin>>

\* conn.close()
Close(c) == [c EXCEPT !.state = "closed"]

\* st.button("Drop database"); in_use: a session is connected to db, and the
\* server refuses with ObjectInUse.  conn.close() is the statement after
\* the cursor block: an exception raised by execute goes past it.
DropDatabase ==
    /\ page = "delete" /\ pc = "ready"
    /\ IF ~confirm
       THEN /\ shown' = Append(shown, Show("warning", 0, "Please tick the confirmation box."))
            /\ UNCHANGED <<sent, databases, conn>>
       ELSE \E in_use \in BOOLEAN :
              LET c == [get_conn(FALSE) EXCEPT !.autocommit = TRUE]
              IN  /\ sent' = Append(sent, Admin("drop", db, FALSE, confirm))
                  /\ databases' = IF in_use THEN databases ELSE databases \ {db}
                  /\ conn' = IF in_use THEN c ELSE Close(c)
                  /\ shown' = Append(shown, IF in_use THEN Show("error", 0, "in use")
                                            ELSE Show("success", 0, "deleted"))
    /\ pc' = "done"
    /\ UNCHANGED <<page, inflight, backends, committed, uncommitted, df, db, confirm, notAdmin>>

---------------------------------------------------------------------------
(* The server's reply to the statement in flight *)

Resume(out) ==
    /\ CASE page = "runner" -> RunnerResume(out)
         [] page = "upload" -> UploadResume(out) /\ UNCHANGED idx
         [] page = "browse" -> BrowseResume(out) /\ UNCHANGED <<idx, uploadVars>>
    /\ page = "runner" => UNCHANGED <<uploadVars, browseVars>>
    /\ page = "upload" => UNCHANGED browseVars
    /\ UNCHANGED <<page, backends, sent, single_txn, lock_timeout_ms,
                   statement_timeout_ms, stmts, adminVars, givenVars, entryVars, splitVars>>

\* The statement runs to its end.
StatementCompletes ==
    /\ pc = "executing" /\ StatementOf(inflight) \in {"write", "select", "copy"}
    /\ ~Blocked
    /\ Resume("done")

\* The server rejects the statement, or the rows of a COPY.
StatementFails ==
    /\ pc = "executing" /\ StatementOf(inflight) \in {"bad", "copy"}
    /\ ~Blocked
    /\ Resume("error")

\* The connection is lost while the statement runs.
ConnectionLost ==
    /\ pc = "executing" /\ StatementOf(inflight) = "dies"
    /\ Resume("lost")

\* The wait for the lock reaches lock_timeout: LockNotAvailable.
LockTimeoutFires ==
    /\ pc = "executing" /\ Blocked
    /\ LockTimeoutFirst(conn)
    /\ Resume("lock_not_available")

\* The statement reaches statement_timeout: QueryCanceled.
StatementTimeoutFires ==
    /\ pc = "executing" /\ Blocked
    /\ StatementTimeoutFirst(conn)
    /\ Resume("query_canceled")

---------------------------------------------------------------------------
(* The pages as they are opened *)

InitServer ==
    /\ conn = NoConn
    /\ inflight = "none"
    /\ committed = {}
    /\ uncommitted = {}
    /\ sent = <<>>
    /\ shown = <<>>

AnyBackends == [Pids -> BackendStates \ {"gone"}]
\* Pages that only meet the lock on the table: one other session is enough.
OneBackend == {b \in [Pids -> BackendStates] : \A p \in Pids : p > 1 <=> b[p] = "gone"}

RunnerClosed ==
    /\ single_txn = FALSE /\ lock_timeout_ms = 0 /\ statement_timeout_ms = 0
    /\ stmts = <<>> /\ idx = 1
    /\ max_rows = 5000 /\ table_rows = 0 /\ sqlparse = TRUE /\ explain = FALSE
SplitClosed ==
    /\ sql_txt = <<>> /\ statements = <<>>
ArrowClosed ==
    /\ df_raw = Column("object", <<>>) /\ df_arrow = Column("object", <<>>)
    /\ df_again = Column("object", <<>>)
UploadClosed ==
    /\ columns = <<>> /\ tbl_cols = <<>> /\ force = FALSE /\ pids = <<>> /\ pidx = 1
BrowseClosed ==
    /\ pk_cols = <<>> /\ cols_types = <<>> /\ catalog_ok = TRUE /\ newest_first = FALSE
    /\ order_cols = <<>> /\ order_strategy = "none" /\ order_by = <<>>
AdminClosed ==
    /\ df = <<>> /\ databases = {} /\ db = "" /\ confirm = FALSE
EntryClosed ==
    /\ entry_columns = <<>> /\ data = <<>> /\ cleaned = <<>>

\* The tables of the browse page: columns of distinct names, and a primary
\* key over some of them in the order it was declared.
TablesOver(names, types) ==
    {t \in UNION {[1..n -> names \X types] : n \in 1..MaxTableCols} :
        \A i \in DOMAIN t : \A j \in DOMAIN t : i # j => t[i][1] # t[j][1]}
Tables == TablesOver(BrowseNames, TypeChoices)
ColumnsOf(t) == {t[i][1] : i \in DOMAIN t}

InitRunner ==
    /\ page = "runner" /\ pc = "ready"
    /\ backends \in OneBackend
    /\ single_txn \in BOOLEAN
    /\ lock_timeout_ms \in LockChoices
    /\ statement_timeout_ms \in StatementChoices
    /\ stmts \in Batches
    /\ idx = 1
    /\ max_rows = 5000 /\ table_rows = 3 /\ sqlparse \in BOOLEAN /\ explain = FALSE
    /\ UploadClosed /\ BrowseClosed /\ AdminClosed /\ SplitClosed /\ ArrowClosed /\ EntryClosed

InitUpload ==
    /\ page = "upload" /\ pc = "start"
    /\ backends \in AnyBackends
    /\ columns \in SeqsNoDup(ColNames, MaxCsvCols) \ {<<>>}
    /\ tbl_cols \in {SubSeq(DeclaredCols, 1, n) : n \in 1..Len(DeclaredCols)}
    /\ force = FALSE /\ pids = <<>> /\ pidx = 1
    /\ RunnerClosed /\ BrowseClosed /\ AdminClosed /\ SplitClosed /\ ArrowClosed /\ EntryClosed

InitBrowse ==
    /\ page = "browse" /\ pc = "ready"
    /\ backends \in OneBackend
    /\ cols_types \in Tables
    /\ pk_cols \in SeqsNoDup(ColumnsOf(cols_types), MaxTableCols)
    /\ catalog_ok \in BOOLEAN
    /\ newest_first \in BOOLEAN
    /\ order_cols = <<>> /\ order_strategy = "none" /\ order_by = <<>>
    /\ RunnerClosed /\ UploadClosed /\ AdminClosed /\ SplitClosed /\ ArrowClosed /\ EntryClosed

InitConnections ==
    /\ page = "connections" /\ pc = "start"
    /\ backends \in [Pids -> BackendStates]
    /\ df = <<>> /\ databases = {} /\ db = "" /\ confirm = FALSE
    /\ RunnerClosed /\ UploadClosed /\ BrowseClosed /\ SplitClosed /\ ArrowClosed /\ EntryClosed

InitDelete ==
    /\ page = "delete" /\ pc = "start"
    /\ backends \in OneBackend
    /\ databases \in {protected \cup S : S \in SUBSET UserDatabases}
    /\ df = <<>> /\ db = "" /\ confirm = FALSE
    /\ RunnerClosed /\ UploadClosed /\ BrowseClosed /\ SplitClosed /\ ArrowClosed /\ EntryClosed

Init ==
    /\ InitServer
    /\ InitRunner \/ InitUpload \/ InitBrowse \/ InitConnections \/ InitDelete

Next ==
    \/ RunSQL
    \/ StartStatement
    \/ UploadRender
    \/ ClickUpload
    \/ ClickForceUpload
    \/ ForceUnlockStep
    \/ BrowseQuery
    \/ ConnectionsRender
    \/ TerminateAllIdle
    \/ TerminateRow
    \/ DeleteRender
    \/ TickConfirm
    \/ DropDatabase
    \/ StatementCompletes
    \/ StatementFails
    \/ ConnectionLost
    \/ LockTimeoutFires
    \/ StatementTimeoutFires
    \/ BackendStep

Spec == Init /\ [][Next]_vars

\* The runner on results around the "Max rows to display" input, with no
\* other session on the server.
MaxRowsChoices == {100, 5000}
TableRowsChoices == {0, 100, 101, 5000, 5001}

InitRows ==
    /\ InitServer
    /\ page = "runner" /\ pc = "ready"
    /\ backends = [p \in Pids |-> "gone"]
    /\ single_txn \in BOOLEAN
    /\ lock_timeout_ms = 2000 /\ statement_timeout_ms = 30000
    /\ stmts \in Batches
    /\ idx = 1
    /\ max_rows \in MaxRowsChoices /\ table_rows \in TableRowsChoices /\ sqlparse = TRUE
    /\ explain = FALSE
    /\ UploadClosed /\ BrowseClosed /\ AdminClosed /\ SplitClosed /\ ArrowClosed /\ EntryClosed

RowsNext ==
    \/ RunSQL
    \/ StartStatement
    \/ StatementCompletes
    \/ StatementFails
    \/ ConnectionLost

RowsSpec == InitRows /\ [][RowsNext]_vars

\* The runner with the EXPLAIN ANALYZE option off and on, with no other
\* session on the server.
InitExplain ==
    /\ InitServer
    /\ page = "runner" /\ pc = "ready"
    /\ backends = [p \in Pids |-> "gone"]
    /\ single_txn \in BOOLEAN
    /\ lock_timeout_ms = 2000 /\ statement_timeout_ms = 30000
    /\ stmts \in Batches
    /\ idx = 1
    /\ max_rows = 5000 /\ table_rows = 3 /\ sqlparse = TRUE
    /\ explain \in BOOLEAN
    /\ UploadClosed /\ BrowseClosed /\ AdminClosed /\ SplitClosed /\ ArrowClosed /\ EntryClosed

ExplainSpec == InitExplain /\ [][RowsNext]_vars

\* split_sql_statements on every text of the bounded length.
InitSplit ==
    /\ InitServer
    /\ page = "split" /\ pc = "ready"
    /\ backends = [p \in Pids |-> "gone"]
    /\ sql_txt \in SqlTexts
    /\ statements = <<>>
    /\ RunnerClosed /\ UploadClosed /\ BrowseClosed /\ AdminClosed /\ ArrowClosed /\ EntryClosed

SplitSpec == InitSplit /\ [][SplitText]_vars

\* to_arrow_friendly on every column of the bounded length.
InitArrow ==
    /\ InitServer
    /\ page = "arrow" /\ pc = "ready"
    /\ backends = [p \in Pids |-> "gone"]
    /\ df_raw \in RawColumns
    /\ df_arrow = Column("object", <<>>)
    /\ df_again = Column("object", <<>>)
    /\ RunnerClosed /\ UploadClosed /\ BrowseClosed /\ AdminClosed /\ SplitClosed /\ EntryClosed

ArrowNext ==
    \/ ToArrowFriendly
    \/ ToArrowFriendlyAgain

ArrowSpec == InitArrow /\ [][ArrowNext]_vars

\* pick_ordering_columns on every table of the wider vocabulary, with no
\* primary key or with its first column as the primary key.
InitPick ==
    /\ InitServer
    /\ page = "pick" /\ pc = "ready"
    /\ backends = [p \in Pids |-> "gone"]
    /\ cols_types \in TablesOver(Range(NameOrder), PickTypes)
    /\ pk_cols \in {<<>>, <<cols_types[1][1]>>}
    /\ catalog_ok = TRUE /\ newest_first = TRUE
    /\ order_cols = <<>> /\ order_strategy = "none" /\ order_by = <<>>
    /\ RunnerClosed /\ UploadClosed /\ AdminClosed /\ SplitClosed /\ ArrowClosed /\ EntryClosed

PickSpec == InitPick /\ [][PickOrdering]_vars

\* The entry form on every table of the bounded width.
InitEntry ==
    /\ InitServer
    /\ page = "entry" /\ pc = "start"
    /\ backends = [p \in Pids |-> "gone"]
    /\ entry_columns \in TablesOver(EntryNames, EntryTypes)
    /\ data = <<>> /\ cleaned = <<>>
    /\ RunnerClosed /\ UploadClosed /\ BrowseClosed /\ AdminClosed /\ SplitClosed /\ ArrowClosed

EntryNext ==
    \/ EntryRender
    \/ InsertRow

EntrySpec == InitEntry /\ [][EntryNext]_vars

---------------------------------------------------------------------------
(* Claims: the SQL runner *)

\* The entries of shown that report a statement, in order.
Reported == SelectSeq(shown, LAMBDA e : e.stmt # 0)
FailedStmts == {Reported[j].stmt : j \in {i \in 1..Len(Reported) : Reported[i].widget = "error"}}
SentStmts == SelectSeq(sent, LAMBDA e : e.op = "stmt")
Writes == {i \in 1..Len(stmts) : stmts[i] = "write"}

C4_EveryStatementIsBounded ==
    (page = "runner" /\ pc = "executing") =>
        /\ \/ Bounded(Effective(conn, "lock_timeout"))
           \/ Bounded(Effective(conn, "statement_timeout"))
        /\ Bounded(Effective(conn, "statement_timeout"))

---------------------------------------------------------------------------
(* Claims: the bulk upload, the destructive commands, the browse ordering *)

C6_TerminateOnlyStillHolding ==
    page = "upload" =>
        \A i \in 1..Len(sent) :
            sent[i].op = "terminate" =>
                /\ sent[i].held
                /\ i > 1 /\ sent[i - 1].op = "cancel" /\ sent[i - 1].arg = sent[i].arg

AdminCmds == {i \in 1..Len(sent) : sent[i].op \in {"cancel", "terminate", "drop"}}

\* C7: the plain Upload sends no pg_cancel_backend and no
\* pg_terminate_backend, whatever becomes of its COPY; the loop of
\* force_unlock_table runs only for the Force-unlock & upload button.
C7_NoUnlockWithoutForce ==
    page = "upload" =>
        /\ AdminCmds # {} => force
        /\ pc = "unlock" => force

C7_Witness ==
    /\ page = "upload" /\ ~force /\ pc = "done"
    /\ shown[Len(shown)].widget = "error"
    /\ \E i \in 1..Len(sent) : sent[i].op = "copy"
    /\ AdminCmds = {}

\* C8: every command that drops a database or cancels or terminates a
\* session is sent by a handler that has had the user confirm it.
C8_DestructiveNeedsConfirmation ==
    \A i \in AdminCmds : sent[i].gate

\* C9: when a header of the CSV is no column of the table, the page shows
\* one error naming exactly those headers and stops: no COPY, no cancel, no
\* terminate, nothing inserted.  The buttons act only when every header is
\* a column of the table.
C9_MissingHeadersStopThePage ==
    page = "upload" =>
        LET absent == {c \in Range(columns) : c \notin Range(tbl_cols)}
        IN  /\ absent # {} =>
                /\ pc \in {"start", "stopped"}
                /\ sent = <<>> /\ committed = {} /\ conn.state = "none"
                /\ pc = "stopped" =>
                      /\ Len(shown) = 1 /\ shown[1].widget = "error"
                      /\ Range(shown[1].text) = absent
            /\ pc \in {"ready", "unlock", "executing", "done"} => absent = {}

C9_Witness ==
    /\ page = "upload" /\ pc = "stopped"
    /\ columns = <<"id", "name", "extra_col">> /\ tbl_cols = <<"id", "name">>
    /\ shown = <<Show("error", 0, <<"extra_col">>)>>

TsCols == {cols_types[i][1] : i \in {j \in DOMAIN cols_types : cols_types[j][2] \in TsTypes}}
IdCols == {cols_types[i][1] : i \in {j \in DOMAIN cols_types :
              /\ cols_types[j][2] \in IdTypes
              /\ cols_types[j][1] \in {"id", "ID", "user_id"}}}

\* C10: what pick_ordering_columns returns is decided by the first rule
\* that applies: the primary-key columns as declared ("primary key"), else
\* one timestamp/date column ("timestamp"), else one id-like numeric column
\* ("id"), else ctid ("ctid"); and the query sorts by exactly the chosen
\* columns, each DESC.
C10_OrderingPriority ==
    (page = "browse" /\ pc \in {"executing", "done"}) =>
        /\ (newest_first /\ catalog_ok /\ pk_cols # <<>>) =>
              order_cols = pk_cols /\ order_strategy = "primary key"
        /\ (newest_first /\ catalog_ok /\ pk_cols = <<>> /\ TsCols # {}) =>
              /\ order_strategy = "timestamp"
              /\ Len(order_cols) = 1 /\ order_cols[1] \in TsCols
        /\ (newest_first /\ catalog_ok /\ pk_cols = <<>> /\ TsCols = {} /\ IdCols # {}) =>
              /\ order_strategy = "id"
              /\ Len(order_cols) = 1 /\ order_cols[1] \in IdCols
        /\ (newest_first /\ catalog_ok /\ pk_cols = <<>> /\ TsCols = {} /\ IdCols = {}) =>
              order_cols = <<"ctid">> /\ order_strategy = "ctid"
        /\ Len(order_by) = Len(order_cols)
        /\ \A i \in DOMAIN order_cols : order_by[i] = <<order_cols[i], "DESC">>

C10_Witness ==
    /\ page = "browse" /\ pc = "executing" /\ newest_first /\ catalog_ok
    /\ cols_types = <<<<"created_at", "timestamptz">>, <<"id", "int4">>>>
    /\ pk_cols = <<"id", "created_at">>
    /\ order_by = <<<<"id", "DESC">>, <<"created_at", "DESC">>>>

---------------------------------------------------------------------------
(* Claims: the ordering heuristic by itself *)

Picked == page = "pick" /\ pc = "done"
CommonTsCols == {n \in TsCols : Lower(n) \in COMMON_TS_NAMES}
\* The first column, in declaration order, whose name is in S.
FirstDeclaredIn(S) ==
    cols_types[CHOOSE i \in DOMAIN cols_types :
                  /\ cols_types[i][1] \in S
                  /\ \A j \in 1..(i - 1) : cols_types[j][1] \notin S][1]
\* The name of S that comes first in string order.
FirstByName(S) == CHOOSE n \in S : \A m \in S : Rank(n) <= Rank(m)

\* C11 (as stated): with no primary key and at least one timestamp/date
\* column, one column is returned: one with a conventional audit-timestamp
\* name if there is any, otherwise the first timestamp/date column in
\* declaration order.
C11_TimestampDeclarationOrder ==
    (Picked /\ pk_cols = <<>> /\ TsCols # {}) =>
        /\ Len(order_cols) = 1
        /\ IF CommonTsCols # {}
           THEN order_cols[1] \in CommonTsCols
           ELSE order_cols[1] = FirstDeclaredIn(TsCols)

\* C11 (amended): with no primary key and at least one timestamp/date
\* column, one column is returned: one with a conventional audit-timestamp
\* name if there is any, otherwise the timestamp/date column whose name
\* comes first in string order, wherever it was declared.
C11_TimestampNameOrder ==
    (Picked /\ pk_cols = <<>> /\ TsCols # {}) =>
        /\ Len(order_cols) = 1
        /\ order_strategy = "timestamp"
        /\ IF CommonTsCols # {}
           THEN order_cols[1] \in CommonTsCols
           ELSE order_cols[1] = FirstByName(TsCols)

\* Two timestamp columns of unconventional names, declared against string order.
C11_Witness ==
    /\ Picked /\ pk_cols = <<>>
    /\ cols_types = <<<<"seen_on", "date">>, <<"born_on", "timestamptz">>>>
    /\ order_cols = <<"born_on">>

\* The names of the columns whose name is in names and whose type in types.
ColNamesOf(names, types) ==
    {cols_types[i][1] : i \in {j \in DOMAIN cols_types :
                                  cols_types[j][1] \in names /\ cols_types[j][2] \in types}}

\* C12 (as stated): with no primary key and no timestamp/date column, only
\* the integer-typed columns named exactly "id" or ending in "_id" are
\* considered, and the first of them in declaration order is returned.
C12_IdDeclarationOrder ==
    (Picked /\ pk_cols = <<>> /\ TsCols = {}) =>
        LET cand == ColNamesOf({"id", "org_id", "user_id"},
                               {"int2", "int4", "int8", "serial", "bigserial"})
        IN  IF cand # {}
            THEN order_cols = <<FirstDeclaredIn(cand)>> /\ order_strategy = "id"
            ELSE order_strategy # "id"

\* C12 (amended): with no primary key and no timestamp/date column, only the
\* columns of type int2, int4, int8, serial, bigserial or numeric whose
\* lower-cased name is "id" or ends in "_id" are considered; one whose
\* lower-cased name is "id" is returned if there is any, otherwise the one
\* whose name comes first in string order.
C12_IdNameOrder ==
    (Picked /\ pk_cols = <<>> /\ TsCols = {}) =>
        LET cand == ColNamesOf({"id", "ID", "org_id", "user_id"},
                               {"int2", "int4", "int8", "serial", "bigserial", "numeric"})
            exact == cand \cap {"id", "ID"}
        IN  IF cand # {}
            THEN /\ order_strategy = "id" /\ Len(order_cols) = 1
                 /\ IF exact # {} THEN order_cols[1] \in exact
                                  ELSE order_cols[1] = FirstByName(cand)
            ELSE order_strategy # "id"

\* "id" declared after another id-like column, and of type numeric.
C12_Witness ==
    /\ Picked /\ pk_cols = <<>>
    /\ cols_types = <<<<"user_id", "int4">>, <<"id", "numeric">>>>
    /\ order_cols = <<"id">> /\ order_strategy = "id"

HasCreatedAt ==
    \E i \in DOMAIN cols_types : cols_types[i] \in {"created_at"} \X {"timestamp", "timestamptz"}

\* C13 (as stated): with no primary key and a column named created_at of
\* timestamp type, whatever the other columns, the result is created_at
\* with strategy "timestamp".
C13_CreatedAtAlways ==
    (Picked /\ pk_cols = <<>> /\ HasCreatedAt) =>
        order_cols = <<"created_at">> /\ order_strategy = "timestamp"

\* C13 (amended): with no primary key and a column named created_at of
\* timestamp type, the result is created_at with strategy "timestamp"
\* unless another timestamp/date column has a conventional audit-timestamp
\* name that comes before "created_at" in string order (such as "created");
\* then that column is returned, with the same strategy.
C13_CreatedAtUnlessEarlierName ==
    (Picked /\ pk_cols = <<>> /\ HasCreatedAt) =>
        LET earlier == {n \in TsCols : /\ n \in {"created", "created_at"}
                                       /\ Rank(n) < Rank("created_at")}
        IN  /\ order_strategy = "timestamp"
            /\ Len(order_cols) = 1
            /\ IF earlier = {} THEN order_cols[1] = "created_at"
                               ELSE order_cols[1] \in earlier

\* created_at chosen over a timestamp column declared before it whose
\* name comes first in string order.
C13_Witness ==
    /\ Picked /\ pk_cols = <<>>
    /\ cols_types = <<<<"born_on", "timestamptz">>, <<"created_at", "timestamptz">>>>
    /\ order_cols = <<"created_at">> /\ order_strategy = "timestamp"

---------------------------------------------------------------------------
(* Claims: what the runner shows *)

\* C14: when a statement returns more rows than max_rows, the payload is
\* its first max_rows rows, and what the caller gets and shows for it (the
\* kind, the payload, the caption) is not what it gets and shows for a
\* complete result of exactly max_rows rows.
C14_TruncationIsReported ==
    (page = "runner" /\ table_rows > max_rows) =>
        \A i \in DOMAIN shown :
            shown[i].widget = "dataframe" =>
                /\ shown[i].text = max_rows
                /\ shown[i] # Show("dataframe", shown[i].stmt, KeptRows(max_rows, max_rows))

\* The entries of shown about statement i, and whether it went to the server.
OutcomesOf(i) == {j \in DOMAIN shown : shown[j].stmt = i}
Executed(i) == \E k \in DOMAIN sent : sent[k].op = "stmt" /\ sent[k].arg = i

\* C15: in both modes every statement the runner has executed has exactly
\* one outcome shown: a table if it returned column metadata, a status
\* message if it did not, or its error; and none while it still runs.
C15_ExactlyOneOutcome ==
    page = "runner" =>
        \A i \in 1..Len(stmts) :
            Executed(i) =>
                IF pc = "executing" /\ idx = i
                THEN OutcomesOf(i) = {}
                ELSE \E j \in OutcomesOf(i) :
                        /\ OutcomesOf(i) = {j}
                        /\ \/ shown[j].widget = "dataframe" /\ stmts[i] = "select"
                           \/ shown[j].widget = "success" /\ stmts[i] = "write"
                           \/ shown[j].widget = "error"

\* A table, a status message and an error in one autocommit batch.
C15_Witness ==
    /\ page = "runner" /\ pc = "done" /\ ~single_txn
    /\ stmts = <<"select", "write", "bad">>
    /\ shown = <<Show("dataframe", 1, table_rows), Show("success", 2, "status"),
                 Show("error", 3, "generic")>>

\* The entry the step adds to shown first.
NextShown == shown'[Len(shown) + 1]

ClickedWithoutSqlparse == page = "runner" /\ ~sqlparse /\ pc # "ready"

---------------------------------------------------------------------------
(* Claims: the statement splitter *)

SplitDone == page = "split" /\ pc = "done"

\* PostgreSQL's reading of a text from position i on, begun in state st:
\* 0 outside everything, -1 in a quoted literal (a doubled quote stays
\* inside, a backslash is a character like another), -2 in a dollar-quoted
\* block, n > 0 in n block comments, which nest.  The state at the end.
RECURSIVE PgScan(_, _, _)
PgScan(txt, i, st) ==
    IF i > Len(txt) THEN st
    ELSE CASE st = 0 ->
                PgScan(txt, i + 1, CASE txt[i] = "'" -> -1
                                     [] txt[i] = "$$" -> -2
                                     [] txt[i] = "/*" -> 1
                                     [] OTHER -> 0)
           [] st = -1 ->
                IF txt[i] = "'" /\ At(txt, i + 1) = "'" THEN PgScan(txt, i + 2, -1)
                ELSE PgScan(txt, i + 1, IF txt[i] = "'" THEN 0 ELSE -1)
           [] st = -2 ->
                PgScan(txt, i + 1, IF txt[i] = "$$" THEN 0 ELSE -2)
           [] OTHER ->
                PgScan(txt, i + 1, CASE txt[i] = "/*" -> st + 1
                                     [] txt[i] = "*/" -> st - 1
                                     [] OTHER -> st)

RECURSIVE Flatten(_)
Flatten(q) == IF q = <<>> THEN <<>> ELSE Head(q) \o Flatten(Tail(q))

\* a is b with some of its pieces left out
RECURSIVE IsSubSeq(_, _)
IsSubSeq(a, b) ==
    IF a = <<>> THEN TRUE
    ELSE IF b = <<>> THEN FALSE
    ELSE IF Head(a) = Head(b) THEN IsSubSeq(Tail(a), Tail(b))
    ELSE IsSubSeq(a, Tail(b))

\* C17: split_sql_statements never splits inside a quoted literal, a
\* dollar-quoted block or a block comment: of a text in which every
\* literal, block and comment is closed, every statement returned has its
\* own literals, blocks and comments closed.  The statements come in the
\* order of the text, and none of them is blank or made of semicolons only.
C17_NeverSplitsInside ==
    SplitDone =>
        /\ PgScan(sql_txt, 1, 0) = 0 =>
               \A k \in DOMAIN statements : PgScan(statements[k], 1, 0) = 0
        /\ IsSubSeq(Flatten(statements), sql_txt)
        /\ \A k \in DOMAIN statements :
               \E j \in DOMAIN statements[k] : statements[k][j] \notin {" ", ";"}

---------------------------------------------------------------------------
(* Claims: the result normalizer *)

ArrowDone == page = "arrow" /\ pc \in {"done", "again"}
AllNull(col) == col.cells # <<>> /\ \A i \in DOMAIN col.cells : IsNull(col.cells[i])

\* C19: to_arrow_friendly leaves a column whose values are all null as it
\* is: every cell is still null, and no coercion (numeric, boolean,
\* timestamp, text) has been applied to it.
C19_AllNullUnchanged ==
    (ArrowDone /\ AllNull(df_raw)) =>
        /\ AllNull(df_arrow)
        /\ df_arrow = df_raw

\* The trimmed, lower-cased, de-duplicated non-null values of the column.
ValueSet(col) ==
    {StripLower(col.cells[i].v) : i \in {j \in DOMAIN col.cells : ~IsNull(col.cells[j])}}
\* At least 60% of the rows of the column read as numbers.
NumericAccepted(col) ==
    5 * Cardinality({i \in DOMAIN col.cells :
                        col.cells[i].t = "Decimal" \/ col.cells[i].v \in {"1", "0", "2.5"}})
        >= 3 * Len(col.cells)

\* C20: a text column for which numeric coercion is not accepted and whose
\* value set is within TRUE_SET \cup FALSE_SET comes out as a boolean
\* column, each value True or False by the set it is in (and each null
\* still null); ["true", "FALSE", "1"] comes out as [True, False, True].
C20_BooleanCoercion ==
    (/\ ArrowDone /\ ~NumericAccepted(df_raw)
     /\ ValueSet(df_raw) # {}
     /\ ValueSet(df_raw) \subseteq {"true", "t", "1", "yes", "y", "false", "f", "0", "no", "n"}) =>
        /\ DtypeStr(df_arrow.dtype) = "boolean"
        /\ Len(df_arrow.cells) = Len(df_raw.cells)
        /\ \A i \in DOMAIN df_raw.cells :
              df_arrow.cells[i] =
                  IF IsNull(df_raw.cells[i]) THEN NA
                  ELSE IF StripLower(df_raw.cells[i].v) \in {"true", "t", "1", "yes", "y"}
                       THEN Cell("bool", "True")
                       ELSE Cell("bool", "False")

\* The rows of the column that hold a value, and those of them that read as
\* a number.
NonNullRows(col) == {i \in DOMAIN col.cells : ~IsNull(col.cells[i])}
ParsedRows(col) ==
    {i \in NonNullRows(col) :
        col.cells[i].t = "Decimal" \/ col.cells[i].v \in {"1", "0", "2.5"}}

\* C21: a text column comes out numeric exactly when at least 60% of its
\* non-null values read as numbers, the nulls not counted; then as an
\* integer column if every value read is integral and as a floating-point
\* column otherwise.
C21_NumericByNonNullShare ==
    (ArrowDone /\ NonNullRows(df_raw) # {}) =>
        LET accepted == 5 * Cardinality(ParsedRows(df_raw)) >= 3 * Cardinality(NonNullRows(df_raw))
            integral == \A i \in ParsedRows(df_raw) : df_raw.cells[i].v \in {"1", "0"}
        IN  /\ df_arrow.dtype \in {"Int64Dtype", "Float64DType"} <=> accepted
            /\ accepted => (df_arrow.dtype = "Int64Dtype" <=> integral)

\* C22: to_arrow_friendly is idempotent: applied to what it returned, it
\* returns a column of the same type and the same cells.
C22_Idempotent ==
    (page = "arrow" /\ pc = "again") => df_again = df_arrow

---------------------------------------------------------------------------
(* Claims: connections, the read-only option, the admin pages *)

\* C23: once the handler of a click has finished, on its success path or on
\* an error path, the connection it opened is not open any more.
C23_ConnectionsReleased ==
    pc \in {"done", "stopped"} => conn.state # "open"

\* C24: with the "EXPLAIN ANALYZE (read-only)" option on, a batch run in
\* either mode changes nothing in the database: no effect of a statement is
\* committed, at any point of the run.
C24_ExplainChangesNothing ==
    (page = "runner" /\ explain) => committed = {}

\* C25: a submitted form always reaches insert_row, with exactly the fields
\* that were filled in (no skipped column, no blank field), and ends with
\* the success message or with the error insert_row reported: never with
\* an exception raised before insert_row is called.
C25_SubmitReachesInsertRow ==
    (page = "entry" /\ pc = "done") =>
        /\ \E i \in DOMAIN sent : sent[i].op = "insert"
        /\ DOMAIN cleaned = {n \in DOMAIN data : data[n] # ""}
        /\ shown # <<>> /\ shown[Len(shown)].widget \in {"success", "error"}

\* The sessions the step ends.
Ended == {p \in Pids : backends[p] # "gone" /\ backends'[p] = "gone"}

Drops == {i \in DOMAIN sent : sent[i].op = "drop"}

\* C27: on the Delete Database page a DROP DATABASE is sent only for a
\* database outside the protected set and only with the confirmation
\* ticked as the button is clicked; a click without the confirmation sends
\* nothing and shows the warning.
C27_DropOnlyConfirmedUnprotected ==
    page = "delete" =>
        /\ \A i \in Drops : sent[i].arg \notin protected /\ sent[i].gate
        /\ Drops # {} => confirm /\ pc = "done"
        /\ (pc = "done" /\ ~confirm) =>
              /\ sent = <<>>
              /\ shown = <<Show("warning", 0, "Please tick the confirmation box.")>>
              /\ conn = NoConn

\* A confirmed drop of a user database that went through.
C27_Witness ==
    /\ page = "delete" /\ pc = "done" /\ confirm
    /\ sent = <<Admin("drop", "demo", FALSE, TRUE)>>
    /\ "demo" \notin databases
    /\ shown = <<Show("success", 0, "deleted")>>

====
